---- MODULE Spec2Model ----
(***************************************************************************)
(* A model of snap-repo's template download pipeline: the provider prefix  *)
(* split and provider lookup, the provider call, the cache-aware           *)
(* downloader and the extraction into the destination directory.           *)
(*                                                                         *)
(* Strings are sequences of symbols.  A symbol is either one punctuation   *)
(* character (":", "/", "#", " ", ...) or a run of alphanumeric characters *)
(* that is never split ("gh", "http", "org").  A JavaScript value that is  *)
(* only ever tested for truthiness (undefined or "") is the empty          *)
(* sequence.                                                               *)
(***************************************************************************)
EXTENDS Integers, Sequences, FiniteSets, TLC

\* ------------------------------------------------------------------ bounds
\* longest input (in symbols) the prefix split is applied to in SpecParse
MaxLen == 3
\* longest tail (in symbols) appended to "org" and "org/repo" in SpecProvider
MaxTail == 4
MaxEntries == 2
MaxRef == 4
\* most entries of the headers object a caller's provider returns
MaxHeaders == 2
\* number of downloadTemplate calls in one behaviour of Spec
MaxCalls == 2
\* number of distinct resource versions (ETags) the tarball server serves
NumETags == 2

\* ----------------------------------------------------------------- strings
\* runs of [A-Za-z0-9] that occur in the inputs
AlnumSyms ==
    {"gh", "github", "gitlab", "bitbucket", "sourcehut", "http", "https",
     "org", "repo", "nope", "custom", "constructor", "registry", "template",
     "main", "out", "x", "json", "foo"}

\* every symbol an input is made of
AllSyms == AlnumSyms \cup {"_", "-", ".", "/", "@", ":", "#", " "}

\* the character class [\w-.] of sourceProtoRe
ProtoClass == AlnumSyms \cup {"_", "-", "."}

\* the character class [\w.-] of inputRegex (the same set of characters)
RepoClass == AlnumSyms \cup {"_", ".", "-"}

\* the character class [\w./@-] of inputRegex
RefClass == AlnumSyms \cup {"_", ".", "/", "@", "-"}

\* length of the longest prefix of s whose symbols all lie in class, from i on
RECURSIVE RunLen(_, _, _)
RunLen(s, i, class) ==
    IF i <= Len(s) /\ s[i] \in class THEN 1 + RunLen(s, i + 1, class) ELSE 0

\* String.prototype.slice(n): s without its first n symbols
Slice(s, n) == SubSeq(s, n + 1, Len(s))

\* input.match(sourceProtoRe): /^([\w-.]+):/ matches when a non-empty run of
\* class symbols at the start of the input is followed by ":"
sourceProtoRe(input) ==
    LET k == RunLen(input, 1, ProtoClass)
    IN  IF k >= 1 /\ k < Len(input) /\ input[k + 1] = ":"
        THEN [matched |-> TRUE, name |-> SubSeq(input, 1, k), len |-> k + 1]
        ELSE [matched |-> FALSE, name |-> <<>>, len |-> 0]

\* position of the first c in s at or after i, 0 when there is none
RECURSIVE IndexFrom(_, _, _)
IndexFrom(s, c, i) ==
    IF i > Len(s) THEN 0 ELSE IF s[i] = c THEN i ELSE IndexFrom(s, c, i + 1)

\* ----------------------------------------------------------- URI parser
\* a variant without the defaults of lines 77-78
parseGitURI_NoDefaults(input) ==
    [matched |-> TRUE, repo |-> input, subdir |-> <<>>, ref |-> <<>>]

\* a variant whose ref is everything after the "#"
parseGitURI_RefToEnd(input) ==
    LET r1 == RunLen(input, 1, RepoClass)
        r2 == RunLen(input, r1 + 2, RepoClass)
        ok == r1 >= 1 /\ r1 < Len(input) /\ input[r1 + 1] = "/" /\ r2 >= 1
        repoLen == r1 + 1 + r2
        sd == RunLen(input, repoLen + 1, AllSyms \ {"#"})
        h == repoLen + sd + 1
    IN  IF ~ok
        THEN [matched |-> FALSE, repo |-> <<>>, subdir |-> <<"/">>,
              ref |-> <<"main">>]
        ELSE [matched |-> TRUE,
              repo |-> SubSeq(input, 1, repoLen),
              subdir |-> IF sd >= 1 THEN SubSeq(input, repoLen + 1, repoLen + sd)
                         ELSE <<"/">>,
              ref |-> IF h < Len(input) THEN SubSeq(input, h + 1, Len(input))
                      ELSE <<"main">>]

\* parseGitURI: input.match(inputRegex)?.groups, with the defaults applied.
\* matched is FALSE when the regex does not match (every group undefined).
parseGitURI(input) ==
    LET r1 == RunLen(input, 1, RepoClass)
        r2 == RunLen(input, r1 + 2, RepoClass)
        ok == r1 >= 1 /\ r1 < Len(input) /\ input[r1 + 1] = "/" /\ r2 >= 1
        repoLen == r1 + 1 + r2
        sd == RunLen(input, repoLen + 1, AllSyms \ {"#"})
        h == repoLen + sd + 1
        rf == IF h <= Len(input) /\ input[h] = "#"
              THEN RunLen(input, h + 1, RefClass) ELSE 0
    IN  IF ~ok
        THEN [matched |-> FALSE, repo |-> <<>>, subdir |-> <<"/">>,
              ref |-> <<"main">>]
        ELSE [matched |-> TRUE,
              repo |-> SubSeq(input, 1, repoLen),
              subdir |-> IF sd >= 1 THEN SubSeq(input, repoLen + 1, repoLen + sd)
                         ELSE <<"/">>,
              ref |-> IF rf >= 1 THEN SubSeq(input, h + 1, h + rf)
                      ELSE <<"main">>]

\* a variant that replaces nothing
ReplaceFirstSlash_Keep(s) == s

\* String.prototype.replace("/", "-"): the first "/" only
RECURSIVE ReplaceFirstSlash(_)
ReplaceFirstSlash(s) ==
    IF s = <<>> THEN <<>>
    ELSE IF Head(s) = "/" THEN <<"-">> \o Tail(s)
    ELSE <<Head(s)>> \o ReplaceFirstSlash(Tail(s))

\* a variant without the g flag: only the first match is replaced
Sanitize_FirstOnly(s) ==
    LET bad == {i \in DOMAIN s : s[i] \notin AlnumSyms \cup {"-"}}
    IN  [i \in 1..Len(s) |->
            IF i \in bad /\ \A j \in bad : i <= j THEN "-" ELSE s[i]]

\* .replace(/[^\da-z-]/gi, "-"): every character outside [A-Za-z0-9-]
\* becomes "-" (each symbol outside AlnumSyms is one character)
Sanitize(s) ==
    [i \in 1..Len(s) |-> IF s[i] \in AlnumSyms \cup {"-"} THEN s[i] ELSE "-"]

\* ------------------------------------------------------ provider dispatch
\* An options object.  provider and dir are strings (<<>> when unset);
\* registry is "false" for options.registry === false and "url" otherwise
\* (a URL, or undefined, which registryProvider defaults to DEFAULT_REGISTRY);
\* hasProviders tells whether options.providers is given, and then it is the
\* object literal with the own keys of CustomKeys.
CustomKeys == {<<"custom">>, <<"gh">>}

\* property names every object literal inherits from Object.prototype and
\* that sourceProtoRe can capture ("constructor" stands for them)
ObjectPrototypeKeys == {<<"constructor">>}

Undefined == [kind |-> "undefined", fn |-> <<>>]

\* registry (lines 162-164): registryProvider(...) is a function, hence
\* truthy, unless options.registry === false
RegistryOf(opts) ==
    IF opts.registry = "false" THEN Undefined
    ELSE [kind |-> "registry", fn |-> <<"registry">>]

\* options.providers?.[providerName]: a property read on an object literal
OverrideLookup(opts, name) ==
    IF ~opts.hasProviders THEN Undefined
    ELSE IF name \in CustomKeys THEN [kind |-> "override", fn |-> name]
    ELSE IF name \in ObjectPrototypeKeys THEN [kind |-> "inherited", fn |-> name]
    ELSE Undefined

\* providers[providerName]: a property read on the providers object literal
providers(name) ==
    IF name \in {<<"http">>, <<"https">>} THEN [kind |-> "builtin", fn |-> <<"http">>]
    ELSE IF name \in {<<"github">>, <<"gh">>} THEN [kind |-> "builtin", fn |-> <<"github">>]
    ELSE IF name \in {<<"gitlab">>, <<"bitbucket">>, <<"sourcehut">>}
         THEN [kind |-> "builtin", fn |-> name]
    ELSE IF name \in ObjectPrototypeKeys THEN [kind |-> "inherited", fn |-> name]
    ELSE Undefined

\* a || b on provider values
OrElse(a, b) == IF a # Undefined THEN a ELSE b

\* a variant that ignores the registry
DefaultProviderName_GithubOnly(opts) ==
    IF opts.provider # <<>> THEN opts.provider ELSE <<"github">>

\* lines 166-167: options.provider || (registry ? "registry" : "github")
DefaultProviderName(opts) ==
    IF opts.provider # <<>> THEN opts.provider
    ELSE IF RegistryOf(opts) # Undefined THEN <<"registry">>
    ELSE <<"github">>

\* lines 169-177: providerName and source after the prefix split
ProviderNameOf(input, opts) ==
    LET m == sourceProtoRe(input)
    IN  IF m.matched THEN m.name ELSE DefaultProviderName(opts)

\* a variant without the http/https exception of lines 174-176
SourceOf_AlwaysSliced(input) ==
    LET m == sourceProtoRe(input)
    IN  IF m.matched THEN Slice(input, m.len) ELSE input

SourceOf(input) ==
    LET m == sourceProtoRe(input)
    IN  IF ~m.matched THEN input
        ELSE IF m.name = <<"http">> \/ m.name = <<"https">> THEN input
        ELSE Slice(input, m.len)

\* lines 179-180: override, then built-in, then registry
ProviderOf(name, opts) ==
    OrElse(OverrideLookup(opts, name), OrElse(providers(name), RegistryOf(opts)))

\* --------------------------------------------------------------- providers
\* a TemplateInfo: the fields the orchestrator reads (<<>> when unset)
NoTemplate ==
    [name |-> <<>>, version |-> <<>>, subdir |-> <<>>, tar |-> <<>>,
     defaultDir |-> <<>>]

Returned(t) == [kind |-> "template", t |-> t, msg |-> ""]
Threw(msg) == [kind |-> "throw", t |-> NoTemplate, msg |-> msg]
ReturnedNull == [kind |-> "null", t |-> NoTemplate, msg |-> ""]

\* github, gitlab, bitbucket, sourcehut: parsed.repo.replace throws a
\* TypeError when the regex did not match (parsed.repo is undefined)
GitProvider(host, source) ==
    LET parsed == parseGitURI(source)
        tar == CASE host = <<"github">> ->
                      <<"https://api.github.com/repos/">> \o parsed.repo
                          \o <<"/tarball/">> \o parsed.ref
                 [] host = <<"gitlab">> ->
                      <<"https://gitlab.com/">> \o parsed.repo
                          \o <<"/-/archive/">> \o parsed.ref \o <<".tar.gz">>
                 [] host = <<"bitbucket">> ->
                      <<"https://bitbucket.org/">> \o parsed.repo
                          \o <<"/get/">> \o parsed.ref \o <<".tar.gz">>
                 [] OTHER ->
                      <<"https://git.sr.ht/~">> \o parsed.repo
                          \o <<"/archive/">> \o parsed.ref \o <<".tar.gz">>
    IN  IF ~parsed.matched
        THEN {Threw("Cannot read properties of undefined (reading 'replace')")}
        ELSE {Returned([name |-> ReplaceFirstSlash(parsed.repo),
                        version |-> parsed.ref,
                        subdir |-> parsed.subdir,
                        tar |-> tar,
                        defaultDir |-> <<>>])}

\* basename(url.pathname): what follows the last "/" of scheme://host/path
RECURSIVE LastSlash(_, _)
LastSlash(s, i) == IF i = 0 THEN 0 ELSE IF s[i] = "/" THEN i ELSE LastSlash(s, i - 1)

Basename(url) ==
    LET path == Slice(url, 5)
    IN  Slice(path, LastSlash(path, Len(path)))

\* a valid TemplateInfo document served as JSON (name and tar present)
JsonInfos ==
    {[name |-> <<"x">>, version |-> <<>>, subdir |-> <<>>,
      tar |-> <<"https://x/x.tar.gz">>, defaultDir |-> <<>>]}

\* What the server answers to the GET of a TemplateInfo document: no answer
\* (fetch rejects), a status >= 400, a body that is not JSON, or a JSON
\* object whose name and tar are each present or missing ("" included).
\* kind "none" stands for a document that was not requested.
Doc(kind, info) == [kind |-> kind, info |-> info]

NoDoc == Doc("none", NoTemplate)

JsonDocs ==
    {Doc("json", [i EXCEPT !.name = n, !.tar = t]) :
        i \in JsonInfos, n \in {<<>>, <<"x">>}, t \in {<<>>, <<"https://x/x.tar.gz">>}}

Docs == {Doc("network", NoTemplate), Doc("status", NoTemplate),
         Doc("syntax", NoTemplate)} \cup JsonDocs

\* what the provider saw: the URL it requested the document from (<<>> when
\* none), the outcome of http's HEAD request ("none" when not sent) and the
\* document
Fetched(url, head, doc) == [url |-> url, head |-> head, doc |-> doc]

NoFetch == Fetched(<<>>, "none", NoDoc)

\* _httpJSON: sendFetch with validateStatus rejects on a network error and
\* on status >= 400, result.json() on a body that is not JSON; a document
\* without tar or name is refused
httpJSON(doc) ==
    CASE doc.kind \in {"network", "status"} -> Threw("Failed to fetch")
      [] doc.kind = "syntax" -> Threw("Unexpected token")
      [] doc.info.tar = <<>> \/ doc.info.name = <<>> ->
             Threw("Invalid template info. name or tar fields are missing!")
      [] OTHER -> Returned(doc.info)

\* input.endsWith(".json")
EndsWithJson(s) == Len(s) >= 2 /\ s[Len(s) - 1] = "." /\ s[Len(s)] = "json"

\* new URL(input) accepts an http(s) URL that names a host
ValidURL(s) ==
    /\ Len(s) >= 3
    /\ s[1] \in {"http", "https"}
    /\ s[2] = ":"
    /\ \E i \in 3..Len(s) : s[i] \in AlnumSyms /\ \A j \in 3..(i - 1) : s[j] = "/"

\* the HEAD outcomes of http: the request failed (or status >= 400), the
\* content type is JSON, a content-disposition names the file, or neither
HeadKinds == {"failed", "json", "file", "plain"}

\* the file name the server's content-disposition gives
FileName == <<"repo", ".", "tar", ".", "gz">>

\* filename.split(".")[0]
RECURSIVE UpToFirstDot(_)
UpToFirstDot(s) ==
    IF s = <<>> \/ Head(s) = "." THEN <<>> ELSE <<Head(s)>> \o UpToFirstDot(Tail(s))

\* the responses an http call on source can get
httpResponses(source) ==
    IF EndsWithJson(source) THEN {Fetched(source, "none", d) : d \in Docs}
    ELSE IF ~ValidURL(source) THEN {NoFetch}
    ELSE {Fetched(source, "json", d) : d \in Docs}
             \cup {Fetched(source, h, NoDoc) : h \in HeadKinds \ {"json"}}

\* http (lines 9-52): the JSON path for an input ending in ".json"; else a
\* HEAD request inside try/catch, and within the try the JSON path when the
\* content type is JSON; the catch logs whatever was thrown in the try and
\* execution continues to the direct-tarball return
http(source, r) ==
    LET direct(name) ==
            Returned([name |-> name \o <<"-">> \o SubSeq(source, 1, 4),
                      version |-> <<>>, subdir |-> <<>>, tar |-> source,
                      defaultDir |-> name])
    IN  IF EndsWithJson(source) THEN httpJSON(r.doc)
        ELSE IF ~ValidURL(source) THEN Threw("Invalid URL")
        ELSE CASE r.head = "json" ->
                      IF httpJSON(r.doc).kind = "throw"
                      THEN direct(Basename(source))
                      ELSE httpJSON(r.doc)
               [] r.head = "file" -> direct(UpToFirstDot(FileName))
               [] OTHER -> direct(Basename(source))

\* the registry endpoint (DEFAULT_REGISTRY, or options.registry)
RegistryEndpoint == <<"https://registry">>

\* registryURL = `${registryEndpoint}/${input}.json`
RegistryURL(source) == RegistryEndpoint \o <<"/">> \o source \o <<".", "json">>

registryResponses(source) ==
    {Fetched(RegistryURL(source), "none", d) : d \in Docs}

\* a variant of registryProvider that returns whatever document it got
registryProvider_Unchecked(source, r) ==
    IF r.doc.kind = "json" THEN Returned(r.doc.info)
    ELSE Threw("Failed to download template info")

\* registryProvider (lines 39-69): sendFetch rejects on a network error,
\* status >= 400 throws, result.json() throws on a body that is not JSON,
\* and a document without tar or name is refused
registryProvider(source, r) ==
    CASE r.doc.kind = "network" -> Threw("Failed to download: fetch failed")
      [] r.doc.kind = "status" -> Threw("Failed to download template info")
      [] r.doc.kind = "syntax" -> Threw("Unexpected token")
      [] r.doc.info.tar = <<>> \/ r.doc.info.name = <<>> ->
             Threw("Invalid template info. name or tar fields are missing!")
      [] OTHER -> Returned(r.doc.info)

\* a caller-supplied provider: may throw, return null or return a template
CustomProvider(source) ==
    {Threw("boom"), ReturnedNull,
     Returned([name |-> <<"custom">>, version |-> source, subdir |-> <<>>,
               tar |-> <<"https://x/custom.tar.gz">>, defaultDir |-> <<>>])}

\* Object(source, ...) returns a String object: truthy, with no template field
InheritedMember(source) == {Returned(NoTemplate)}

\* ------------------------------------------------------------- headers
\* A headers object is the sequence of its <<key, value>> entries in
\* insertion order; the value <<>> stands for undefined and for "".

\* key.toLowerCase() on the header names in use
Lower(key) ==
    CASE key \in {"Authorization", "AUTHORIZATION"} -> "authorization"
      [] key = "Accept" -> "accept"
      [] key = "X-GitHub-Api-Version" -> "x-github-api-version"
      [] OTHER -> key

HasKey(h, key) == \E i \in 1..Len(h) : h[i][1] = key

\* h[key] = value: an existing key keeps its place, a new one goes last
Assign(h, key, value) ==
    IF HasKey(h, key)
    THEN [i \in 1..Len(h) |-> IF h[i][1] = key THEN <<key, value>> ELSE h[i]]
    ELSE Append(h, <<key, value>>)

\* a variant that copies empty values too
RECURSIVE normalizeHeaders_KeepEmpty(_)
normalizeHeaders_KeepEmpty(h) ==
    IF h = <<>> THEN <<>>
    ELSE LET rest == normalizeHeaders_KeepEmpty(SubSeq(h, 1, Len(h) - 1))
             last == h[Len(h)]
         IN  Assign(rest, Lower(last[1]), last[2])

\* normalizeHeaders (lines 151-162): the entries in order, a falsy value
\* skipped, the key lower-cased, a later entry overwriting an earlier one
RECURSIVE normalizeHeaders(_)
normalizeHeaders(h) ==
    IF h = <<>> THEN <<>>
    ELSE LET rest == normalizeHeaders(SubSeq(h, 1, Len(h) - 1))
             last == h[Len(h)]
         IN  IF last[2] = <<>> THEN rest
             ELSE Assign(rest, Lower(last[1]), last[2])

\* options.auth ? `Bearer ${options.auth}` : undefined
Bearer(auth) == IF auth # <<>> THEN <<"Bearer", " ">> \o auth ELSE <<>>

\* { ...a, ...b }: the entries of a, then those of b assigned over them
RECURSIVE Spread(_, _)
Spread(a, b) ==
    IF b = <<>> THEN a
    ELSE Spread(Assign(a, Head(b)[1], Head(b)[2]), Tail(b))

\* lines 221-226: the headers option handed to download
DownloadHeaders(auth, h) ==
    Spread(<< <<"Authorization", Bearer(auth)>> >>, normalizeHeaders(h))

\* sendFetch, line 119: the headers fetch is called with
sendFetch(h) == normalizeHeaders(h)

\* template.headers as each provider sets it: http on its direct return,
\* the four git hosts, and the caller's own provider; a TemplateInfo
\* document served as JSON carries none
TemplateHeaders(p, o, fromDocument) ==
    CASE fromDocument -> <<>>
      [] p.kind = "override" -> o.override
      [] p.kind = "builtin" /\ p.fn = <<"http">> ->
             << <<"Authorization", Bearer(o.auth)>> >>
      [] p.kind = "builtin" /\ p.fn = <<"github">> ->
             << <<"Authorization", Bearer(o.auth)>>,
                <<"Accept", <<"application/vnd.github+json">> >>,
                <<"X-GitHub-Api-Version", <<"2022-11-28">> >> >>
      [] p.kind = "builtin" /\ p.fn = <<"gitlab">> ->
             << <<"authorization", Bearer(o.auth)>>,
                <<"sec-fetch-mode", <<"same-origin">> >> >>
      [] p.kind = "builtin" -> << <<"authorization", Bearer(o.auth)>> >>
      [] OTHER -> <<>>

\* the responses the provider's own requests can get
ProviderResponses(provider, source) ==
    CASE provider.kind = "builtin" /\ provider.fn = <<"http">> -> httpResponses(source)
      [] provider.kind = "registry" -> registryResponses(source)
      [] OTHER -> {NoFetch}

\* provider(source, { auth }) given those responses
ProviderOutcomesOn(provider, source, r) ==
    CASE provider.kind = "builtin" /\ provider.fn = <<"http">> -> {http(source, r)}
      [] provider.kind = "builtin" -> GitProvider(provider.fn, source)
      [] provider.kind = "registry" -> {registryProvider(source, r)}
      [] provider.kind = "override" -> CustomProvider(source)
      [] OTHER -> InheritedMember(source)

\* provider(source, { auth }): the outcomes the call can have
ProviderOutcomes(provider, source) ==
    UNION {ProviderOutcomesOn(provider, source, r) :
              r \in ProviderResponses(provider, source)}

\* const parsed = parseGitURI(input), the first line of the four git
\* providers; NoParse for the providers that do not parse
NoParse == [matched |-> FALSE, repo |-> <<>>, subdir |-> <<>>, ref |-> <<>>]

ParsedBy(provider, source) ==
    IF provider.kind = "builtin" /\ provider.fn # <<"http">>
    THEN parseGitURI(source) ELSE NoParse

\* lines 197-202: the two sanitizing rewrites
SanitizeTemplate(t) ==
    LET name == Sanitize(IF t.name # <<>> THEN t.name ELSE <<"template">>)
    IN  [t EXCEPT !.name = name,
                  !.defaultDir = Sanitize(IF t.defaultDir # <<>> THEN t.defaultDir
                                          ELSE name)]

\* An absolute path is the sequence of its segments below "/".
\* cacheDirectory(): resolve(homedir(), ".cache/giget")
CacheRoot == << <<"home">>, <<".cache">>, <<"giget">> >>

\* the segments of a string, split at every "/"
RECURSIVE SplitSlash(_)
SplitSlash(s) ==
    IF IndexFrom(s, "/", 1) = 0 THEN <<s>>
    ELSE <<SubSeq(s, 1, IndexFrom(s, "/", 1) - 1)>>
             \o SplitSlash(Slice(s, IndexFrom(s, "/", 1)))

\* path normalization: "" and "." are dropped, ".." removes the segment
\* before it and nothing at the root
RECURSIVE Normalize(_, _)
Normalize(segments, path) ==
    IF segments = <<>> THEN path
    ELSE Normalize(Tail(segments),
                   CASE Head(segments) \in {<<>>, <<".">>} -> path
                     [] Head(segments) = <<".", ".">> ->
                            SubSeq(path, 1, Len(path) - 1)
                     [] OTHER -> Append(path, Head(segments)))

\* resolve(base, part): a part that starts with "/" is absolute and
\* replaces base
Resolve(base, part) ==
    IF part # <<>> /\ Head(part) = "/" THEN Normalize(SplitSlash(part), <<>>)
    ELSE Normalize(SplitSlash(part), base)

\* dirname of an absolute path
Dirname(path) == SubSeq(path, 1, Len(path) - 1)

\* lines 205-213: the cache directory and the tarball path
TemporaryDirectory(name, t) == Resolve(Resolve(CacheRoot, name), t.name)

TarPath(name, t) ==
    Resolve(TemporaryDirectory(name, t),
            (IF t.version # <<>> THEN t.version ELSE t.name) \o <<".tar.gz">>)

\* lines 244-245: resolve(cwd, options.dir || template.defaultDir)
ExtractPath(opts, t) == IF opts.dir # <<>> THEN opts.dir ELSE t.defaultDir

\* ------------------------------------------------------------ downloader
\* the value of headResponse?.headers.get("etag") and of info.etag:
\* undefined (no response, no field), null (no such header) or a string
EUndefined == [t |-> "undefined", v |-> 0]
ENull == [t |-> "null", v |-> 0]
EString(e) == [t |-> "string", v |-> e]
ETags == 1..NumETags

\* the body the server serves under ETag e: version 1 is the longest
Body(e) == IF e = 1 THEN <<1, 1>> ELSE <<e>>

\* a variant that skips when the ETags differ
AlreadyDownloaded_Negated(infoEtag, headEtag, fileExists) ==
    infoEtag # headEtag /\ fileExists

\* line 41: info.etag === etag && existsSync(filePath)
AlreadyDownloaded(infoEtag, headEtag, fileExists) ==
    infoEtag = headEtag /\ fileExists

\* lines 45-47: typeof etag === "string" ? etag : info.etag
InfoAfterHead(infoEtag, headEtag) ==
    IF headEtag.t = "string" THEN headEtag ELSE infoEtag

\* lines 57-59: Deno.open(filePath, { write: true, create: true }) and
\* pipeTo: the bytes are written from offset 0 and the file is not truncated
WriteFile(old, bytes) == bytes \o SubSeq(old, Len(bytes) + 1, Len(old))

\* --------------------------------------------------------------- the state
VARIABLES
    pc,            \* where the downloadTemplate call stands
    calls,         \* number of calls started so far
    input, opts,   \* the arguments of the call
    providerName, source, provider, template, offline,
    info, body,    \* locals of download, cleared when it settles
    etag,          \* the etag of the HEAD response; cleared once info holds it
    thrown,        \* the error download rejected with, "" when none
    response,      \* what the provider's own requests got (a local of it)
    parsed,        \* the provider's parseGitURI result (a local of it)
    result,        \* how the call ended
    tarballs,      \* cache: tarPath -> bytes, for the tarballs that exist
    sidecars,      \* cache: tarPath -> stored etag, for the sidecars that exist
    cacheDirs,     \* cache directories that exist
    dest,          \* extraction path -> set of files, for the paths that exist
    dest0,         \* dest when the call started
    other,         \* where a second, concurrent call of the same template stands
    headers,       \* template.headers as the provider returned it
    sent,          \* the headers of the latest tarball request on the wire
    trace          \* what the call has done so far, in order

vars ==
    <<pc, calls, input, opts, providerName, source, provider, template, offline,
      info, etag, body, thrown, response, parsed, result, tarballs, sidecars,
      cacheDirs, dest, dest0, other, headers, sent,
      trace>>

callVars == <<calls, input, opts>>
resolveVars == <<providerName, source, provider>>
providerVars == <<response, parsed>>
downloadVars == <<info, etag, body, thrown>>
cacheVars == <<tarballs, sidecars, cacheDirs>>

NoResult == [kind |-> "none", provider |-> <<>>, msg |-> ""]
Failure(kind, name, msg) == [kind |-> kind, provider |-> name, msg |-> msg]

tarPath == TarPath(providerName, template)
extractPath == ExtractPath(opts, template)
Exists(files, path) == path \in DOMAIN files

\* f with path mapped to value (path added when absent)
Put(f, path, value) ==
    [p \in DOMAIN f \cup {path} |-> IF p = path THEN value ELSE f[p]]

\* f without path
Remove(f, path) == [p \in DOMAIN f \ {path} |-> f[p]]

Empty == [p \in {} |-> <<>>]

\* the second call: its position, the locals info and body of its download
\* and the number of bytes it has written to the tarball
Other(at, i, b, n) == [pc |-> at, info |-> i, body |-> b, written |-> n]
NoOther == Other("idle", EUndefined, <<>>, 0)

\* the call has done x
Did(x) == \E i \in DOMAIN trace : trace[i] = x

\* ------------------------------------------------------------- arguments
Options(registry, hasProviders, dir) ==
    [provider : {<<>>}, registry : registry, hasProviders : hasProviders,
     dir : dir, auth : {<<>>}, override : {<<>>}, force : {FALSE},
     forceClean : {FALSE},
     offline : {FALSE}, preferOffline : {FALSE}]

\* The caller's configuration: it stays the same from call to call.  The
\* four flags are drawn where downloadTemplate first reads them (offline and
\* preferOffline at line 215, forceClean and force at line 246) and are FALSE
\* until then.
Callers ==
    ({<<"gh", ":", "org", "/", "repo">>}
         \X Options({"url"}, {FALSE}, {<<>>, <<"out">>}))
        \cup ({<<"gh", ":", "org", "/", "repo">>}
                  \X Options({"url"}, {TRUE}, {<<>>}))
        \cup ({<<"org", "/", "repo">>}
                  \X Options({"false", "url"}, {FALSE}, {<<>>}))
        \cup ({<<"nope", ":", "org", "/", "repo">>}
                  \X Options({"false", "url"}, {FALSE}, {<<>>}))
        \cup ({<<"constructor", ":", "x">>}
                  \X Options({"false"}, {FALSE}, {<<>>}))
        \cup ({<<"custom", ":", "x">>} \X Options({"false"}, BOOLEAN, {<<>>}))
        \cup ({<<"https", ":", "/", "/", "x", "/", "repo">>}
                  \X Options({"false"}, {FALSE}, {<<>>}))

\* the arguments of the prefix split: every input of at most MaxLen symbols
ParseSyms == {"gh", "http", "https", ":", "/", " "}

RECURSIVE SeqsUpTo(_, _)
SeqsUpTo(S, n) ==
    IF n = 0 THEN {<<>>}
    ELSE LET shorter == SeqsUpTo(S, n - 1)
         IN  shorter \cup {Append(q, x) : q \in shorter, x \in S}

ParseInputs == SeqsUpTo(ParseSyms, MaxLen)

ParseOptions ==
    [provider : {<<>>, <<"gitlab">>}, registry : {"false", "url"},
     hasProviders : BOOLEAN, dir : {<<>>}, auth : {<<>>},
     override : {<<>>}, force : {FALSE}, forceClean : {FALSE},
     offline : {FALSE}, preferOffline : {FALSE}]

InitCall ==
    /\ pc = "idle"
    /\ calls = 1
    /\ providerName = <<>>
    /\ source = <<>>
    /\ provider = Undefined
    /\ template = NoTemplate
    /\ offline = FALSE
    /\ info = EUndefined
    /\ etag = EUndefined
    /\ body = <<>>
    /\ thrown = ""
    /\ response = NoFetch
    /\ parsed = NoParse
    /\ result = NoResult
    /\ tarballs = Empty
    /\ sidecars = Empty
    /\ cacheDirs = {}
    /\ dest = Empty
    /\ dest0 = Empty
    /\ other = NoOther
    /\ headers = <<>>
    /\ sent = <<>>
    /\ trace = <<>>

Init == InitCall /\ \E c \in Callers : input = c[1] /\ opts = c[2]

InitParse == InitCall /\ input \in ParseInputs /\ opts \in ParseOptions

\* the arguments of the provider calls: every git provider on "org" and
\* "org/repo" followed by every tail of at most MaxTail symbols, the http
\* provider on a tarball URL, a JSON URL and a URL without host, and the
\* registry provider
TailSyms == {"/", "#", "foo", "@", "-", " "}

GitSources ==
    {h \o t : h \in {<<"org">>, <<"org", "/", "repo">>},
              t \in SeqsUpTo(TailSyms, MaxTail)}

GitPrefixes == {<<"gh">>, <<"github">>, <<"gitlab">>, <<"bitbucket">>, <<"sourcehut">>}

ProviderInputs ==
    {p \o <<":">> \o g : p \in GitPrefixes, g \in GitSources}
        \cup {<<"https", ":", "/", "/", "x", "/", "repo">>,
               <<"https", ":", "/", "/", "x", "/", "x", ".", "json">>,
               <<"http", ":">>,
               <<"x">>, <<"nope", ":", "x">>}

InitProvider ==
    /\ InitCall
    /\ input \in ProviderInputs
    /\ opts \in Options({"url"}, {FALSE}, {<<>>})

\* ---------------------------------------------------------- the network
Response(kind, e) == [kind |-> kind, e |-> e]

\* HEAD url: no response (sendFetch threw), a response without an etag
\* header, or a response with the ETag of some version.  fetch(undefined)
\* always throws.
HeadOutcomes(url) ==
    IF url = <<>> THEN {EUndefined}
    ELSE {EUndefined, ENull} \cup {EString(e) : e \in ETags}

\* GET url: sendFetch threw, status >= 400, or the body of some version
GetOutcomes(url) ==
    IF url = <<>> THEN {Response("network", 0)}
    ELSE {Response("network", 0), Response("status", 0)}
             \cup {Response("ok", e) : e \in ETags}

\* The archive a tarball holds: block b of the tarball is the entry with
\* path EntryPaths[b].  Entries are rooted at "repo-main/" the way the hosts
\* pack them: files at the root, below foo, below foo/bar and below a
\* directory whose name starts with foo, the directory entries of the root
\* and of foo, and a header entry without any "/".  The entries past
\* HostEntries are ones no host packs: paths with ".." parts and a path with
\* an empty second segment.
EntryPaths ==
    << <<"repo-main", "/", "x">>,
       <<"repo-main", "/", "foo", "/", "x">>,
       <<"repo-main", "/", "foo", "/", "bar", "/", "x">>,
       <<"repo-main", "/", "foo", "x", "/", "x">>,
       <<"repo-main", "/">>,
       <<"repo-main", "/", "foo", "/">>,
       <<"pax_global_header">>,
       <<"repo-main", "/", ".", ".", "/", "x">>,
       <<"repo-main", "/", "foo", "/", ".", ".", "/", ".", ".", "/", "x">>,
       <<"repo-main", "/", "/", "x">> >>

HostEntries == 1..7

\* line 265: entry.path.split("/").splice(1).join("/")
DropFirstSegment(path) ==
    IF IndexFrom(path, "/", 1) = 0 THEN <<>> ELSE Slice(path, IndexFrom(path, "/", 1))

StartsWith(s, p) == Len(s) >= Len(p) /\ SubSeq(s, 1, Len(p)) = p

\* line 260: template.subdir?.replace(/^\//, "") || ""
SubdirOf(t) ==
    IF t.subdir # <<>> /\ t.subdir[1] = "/" THEN Tail(t.subdir) ELSE t.subdir

\* a variant that tests startsWith(subdir)
onentry_PrefixOnly(path, subdir) ==
    LET p == DropFirstSegment(path)
    IN  IF subdir = <<>> THEN p
        ELSE IF StartsWith(p, subdir) THEN Slice(p, Len(subdir))
        ELSE <<>>

\* lines 264-275: the path the entry is given before tar unpacks it
onentry(path, subdir) ==
    LET p == DropFirstSegment(path)
    IN  IF subdir = <<>> THEN p
        ELSE IF StartsWith(p, subdir \o <<"/">>) THEN Slice(p, Len(subdir))
        ELSE <<>>

\* a variant that unpacks whatever path it is given
CheckPath_Any(path) == TRUE

\* tar unpacks with preservePaths unset: an entry whose path has a ".."
\* part is refused
CheckPath(path) ==
    \A i \in DOMAIN SplitSlash(path) : SplitSlash(path)[i] # <<".", ".">>

\* tar unpacks below cwd: the root of an absolute path is stripped
RECURSIVE StripRoot(_)
StripRoot(path) ==
    IF path # <<>> /\ path[1] = "/" THEN StripRoot(Tail(path)) ELSE path

\* lines 261-276: the files tar writes for a tarball, each with the block it
\* was unpacked from; a refused entry writes nothing, and an entry whose
\* path is empty is the destination itself and writes no file
Extracted(bytes, t) ==
    {<<StripRoot(onentry(EntryPaths[bytes[i]], SubdirOf(t))), bytes[i]>> :
         i \in {j \in DOMAIN bytes :
                   /\ CheckPath(onentry(EntryPaths[bytes[j]], SubdirOf(t)))
                   /\ StripRoot(onentry(EntryPaths[bytes[j]], SubdirOf(t))) # <<>>}}

\* a file the destination held before any call
Old == << <<"old">>, 0 >>

\* ------------------------------------------------------- downloadTemplate
\* lines 156-183: merge options, split the prefix, look the provider up
Begin ==
    /\ pc = "idle"
    /\ providerName' = ProviderNameOf(input, opts)
    /\ source' = SourceOf(input)
    /\ provider' = ProviderOf(providerName', opts)
    /\ dest0' = dest
    /\ IF provider' = Undefined
       THEN /\ result' = Failure("UnsupportedProvider", providerName', "")
            /\ pc' = "done"
       ELSE /\ pc' = "provider"
            /\ UNCHANGED result
    /\ UNCHANGED <<sent, headers, other, callVars, template, offline,
                   providerVars, downloadVars, cacheVars, dest, trace>>

\* lines 185-213: call the provider, sanitize what it returned
\* a variant without the !template check of lines 193-195
AfterProvider_NoNullCheck(o, name) ==
    IF o.kind = "throw" THEN Failure("ProviderFailed", name, o.msg) ELSE NoResult

\* lines 187-195: the catch handler and the !template check
AfterProvider(o, name) ==
    IF o.kind = "throw" THEN Failure("ProviderFailed", name, o.msg)
    ELSE IF o.kind = "null" THEN Failure("ResolveFailed", name, "")
    ELSE NoResult

CallProvider ==
    /\ pc = "provider"
    /\ parsed' = ParsedBy(provider, source)
    /\ \E r \in ProviderResponses(provider, source) :
       \E o \in ProviderOutcomesOn(provider, source, r) :
          /\ response' = r
          /\ trace' = Append(trace, CASE o.kind = "throw" -> "providerThrew"
                                      [] o.kind = "null" -> "providerReturnedNull"
                                      [] OTHER -> "providerReturned")
          /\ result' = AfterProvider(o, providerName)
          /\ IF result' # NoResult
             THEN pc' = "done" /\ UNCHANGED <<template, headers>>
             ELSE /\ pc' = "offline"
                  /\ template' = SanitizeTemplate(o.t)
                  /\ headers' = TemplateHeaders(provider, opts,
                         r.doc.kind = "json" /\ o = Returned(r.doc.info))
    /\ UNCHANGED <<sent, other, callVars, resolveVars, offline,
                   downloadVars, cacheVars, dest, dest0>>

\* a variant in which preferOffline forces offline without looking at the cache
OfflineAfterPolicy_IgnoreCache(o, tarballExists) == o.offline \/ o.preferOffline

\* lines 215-218: preferOffline with a cached tarball forces offline
OfflineAfterPolicy(o, tarballExists) ==
    o.offline \/ (o.preferOffline /\ tarballExists)

OfflinePolicy ==
    /\ pc = "offline"
    /\ \E o, p \in BOOLEAN : opts' = [opts EXCEPT !.offline = o, !.preferOffline = p]
    /\ offline' = OfflineAfterPolicy(opts', Exists(tarballs, tarPath))
    /\ pc' = IF offline' THEN "tarCheck" ELSE "ensureCacheDir"
    /\ response' = NoFetch
    /\ parsed' = NoParse
    /\ UNCHANGED <<sent, headers, other, calls, input, resolveVars, template,
                   downloadVars, result, cacheVars, dest, dest0, trace>>

\* line 219: ensureDir(dirname(tarPath))
EnsureCacheDir ==
    /\ pc = "ensureCacheDir"
    /\ cacheDirs' = cacheDirs \cup {Dirname(tarPath)}
    /\ trace' = Append(trace, "ensureCacheDir")
    /\ pc' = "readInfo"
    /\ UNCHANGED <<sent, headers, other, callVars, resolveVars, providerVars,
                   template, offline, downloadVars, result, tarballs, sidecars,
                   dest, dest0>>

\* download, lines 25-33: read the sidecar, {} when it cannot be read
ReadInfo ==
    /\ pc = "readInfo"
    /\ info' = IF Exists(sidecars, tarPath) THEN sidecars[tarPath] ELSE EUndefined
    /\ pc' = "head"
    /\ UNCHANGED <<sent, headers, other, callVars, resolveVars, providerVars,
                   template, offline, etag, body, thrown, result, cacheVars,
                   dest, dest0, trace>>

\* download, lines 35-47: HEAD, then skip or remember the ETag
HeadRequest ==
    /\ pc = "head"
    /\ sent' = sendFetch(DownloadHeaders(opts.auth, headers))
    /\ trace' = Append(trace, "HEAD")
    /\ \E h \in HeadOutcomes(template.tar) :
          IF AlreadyDownloaded(info, h, Exists(tarballs, tarPath))
          THEN pc' = "tarCheck" /\ info' = EUndefined /\ etag' = h
          ELSE pc' = "get" /\ info' = InfoAfterHead(info, h) /\ etag' = h
    /\ UNCHANGED <<headers, other, callVars, resolveVars, providerVars,
                   template, offline, body, thrown, result, cacheVars, dest,
                   dest0>>

\* a variant that persists the ETag learned from HEAD before it fails
GetRequest_PersistEtag ==
    /\ pc = "get"
    /\ sent' = sendFetch(DownloadHeaders(opts.auth, headers))
    /\ trace' = Append(trace, "GET")
    /\ \E g \in GetOutcomes(template.tar) :
          CASE g.kind = "network" ->
                 thrown' = "Failed to download: fetch failed"
                     /\ pc' = "catch" /\ UNCHANGED <<body, sidecars>>
            [] g.kind = "status" ->
                 thrown' = "Failed to download: status >= 400"
                     /\ pc' = "catch" /\ UNCHANGED body
                     /\ sidecars' = Put(sidecars, tarPath, info)
            [] OTHER ->
                 body' = Body(g.e) /\ pc' = "write"
                     /\ UNCHANGED <<thrown, sidecars>>
    /\ UNCHANGED <<headers, other, callVars, resolveVars, providerVars,
                   template, offline, info, etag, result, tarballs, cacheDirs,
                   dest, dest0>>

\* download, lines 49-54: GET, fail on status >= 400
GetRequest ==
    /\ pc = "get"
    /\ sent' = sendFetch(DownloadHeaders(opts.auth, headers))
    /\ trace' = Append(trace, "GET")
    /\ \E g \in GetOutcomes(template.tar) :
          CASE g.kind = "network" ->
                 thrown' = "Failed to download: fetch failed"
                     /\ pc' = "catch" /\ UNCHANGED body
            [] g.kind = "status" ->
                 thrown' = "Failed to download: status >= 400"
                     /\ pc' = "catch" /\ UNCHANGED body
            [] OTHER ->
                 body' = Body(g.e) /\ pc' = "write" /\ UNCHANGED thrown
    /\ UNCHANGED <<headers, other, callVars, resolveVars, providerVars,
                   template, offline, info, etag, result, cacheVars, dest,
                   dest0>>

\* download, lines 57-59: open (create) the file and stream the body into
\* it; the stream may fail after n bytes
StreamToFile ==
    /\ pc = "write"
    /\ trace' = Append(trace, "writeTarball")
    /\ \E n \in 0..Len(body) :
          /\ tarballs' =
                 Put(tarballs, tarPath,
                     WriteFile(IF Exists(tarballs, tarPath) THEN tarballs[tarPath]
                               ELSE <<>>,
                               SubSeq(body, 1, n)))
          /\ IF n = Len(body)
             THEN pc' = "writeInfo" /\ UNCHANGED thrown
             ELSE pc' = "catch" /\ thrown' = "stream failed"
    /\ UNCHANGED <<sent, headers, other, callVars, resolveVars, providerVars,
                   template, offline, info, etag, body, result, sidecars,
                   cacheDirs, dest, dest0>>

\* download, line 61: persist info to the sidecar
WriteInfo ==
    /\ pc = "writeInfo"
    /\ sidecars' = Put(sidecars, tarPath, info)
    /\ trace' = Append(trace, "writeInfo")
    /\ pc' = "tarCheck"
    /\ info' = EUndefined
    /\ etag' = EUndefined
    /\ body' = <<>>
    /\ UNCHANGED <<sent, headers, other, callVars, resolveVars, providerVars,
                   template, offline, thrown, result, tarballs, cacheDirs,
                   dest, dest0>>

\* a variant that rethrows whatever the cache holds
RethrowDownloadError_Always(tarballExists) == TRUE

\* lines 226-233: the download rejected; rethrow unless a tarball exists
RethrowDownloadError(tarballExists) == ~tarballExists

DownloadCatch ==
    /\ pc = "catch"
    /\ IF RethrowDownloadError(Exists(tarballs, tarPath))
       THEN /\ result' = Failure("DownloadError", providerName, thrown)
            /\ pc' = "done"
            /\ UNCHANGED offline
       ELSE /\ offline' = TRUE
            /\ pc' = "tarCheck"
            /\ UNCHANGED result
    /\ info' = EUndefined
    /\ etag' = EUndefined
    /\ body' = <<>>
    /\ thrown' = ""
    /\ UNCHANGED <<sent, headers, other, callVars, resolveVars, providerVars,
                   template, cacheVars, dest, dest0, trace>>

\* a variant without the check of lines 237-241
TarballMissing_Never(tarballExists) == FALSE

\* lines 237-241: without a tarball there is nothing to extract
TarballMissing(tarballExists) == ~tarballExists

\* a variant that cleans the destination before it looks for the tarball
TarCheck_CleanFirst ==
    /\ pc = "tarCheck"
    /\ \E f, c \in BOOLEAN :
          /\ opts' = [opts EXCEPT !.force = f, !.forceClean = c]
          /\ dest' = IF c /\ Exists(dest, extractPath)
                     THEN Remove(dest, extractPath)
                     ELSE dest
          /\ IF TarballMissing(Exists(tarballs, tarPath))
             THEN /\ result' = Failure("TarballNotFound", providerName,
                                       IF offline THEN "offline: true"
                                       ELSE "offline: false")
                  /\ pc' = "done"
             ELSE /\ pc' = "conflict"
                  /\ UNCHANGED result
    /\ UNCHANGED <<sent, headers, other, calls, input, resolveVars,
                   providerVars, template, offline, downloadVars, cacheVars,
                   dest0, trace>>

\* lines 237-246: "Tarball not found" unless the tarball exists; then
\* options.forceClean and options.force are read
TarCheck ==
    /\ pc = "tarCheck"
    /\ IF TarballMissing(Exists(tarballs, tarPath))
       THEN /\ result' = Failure("TarballNotFound", providerName,
                                 IF offline THEN "offline: true" ELSE "offline: false")
            /\ pc' = "done"
            /\ UNCHANGED opts
       ELSE /\ \E f, c \in BOOLEAN : opts' = [opts EXCEPT !.force = f, !.forceClean = c]
            /\ pc' = IF opts'.forceClean THEN "forceClean" ELSE "conflict"
            /\ UNCHANGED result
    /\ UNCHANGED <<sent, headers, other, calls, input, resolveVars,
                   providerVars, template, offline, downloadVars, cacheVars,
                   dest, dest0, trace>>

\* lines 246-248: Deno.remove(extractPath, { recursive: true }) rejects with
\* NotFound when the path does not exist
ForceClean ==
    /\ pc = "forceClean"
    /\ IF Exists(dest, extractPath)
       THEN /\ dest' = Remove(dest, extractPath)
            /\ trace' = Append(trace, "removeDest")
            /\ pc' = "conflict"
            /\ UNCHANGED result
       ELSE /\ result' = Failure("NotFound", providerName, "No such file or directory")
            /\ pc' = "done"
            /\ UNCHANGED <<dest, trace>>
    /\ UNCHANGED <<sent, headers, other, callVars, resolveVars, providerVars,
                   template, offline, downloadVars, cacheVars, dest0>>

\* a variant without the check of lines 249-256
DestinationConflict_Never(force, destExists) == FALSE

\* lines 249-256: an existing destination is a conflict unless force is set
DestinationConflict(force, destExists) == ~force /\ destExists

ConflictCheck ==
    /\ pc = "conflict"
    /\ IF DestinationConflict(opts.force, Exists(dest, extractPath))
       THEN /\ result' = Failure("DestinationExists", providerName, "already exists")
            /\ pc' = "done"
       ELSE /\ pc' = "ensureDir"
            /\ UNCHANGED result
    /\ UNCHANGED <<sent, headers, other, callVars, resolveVars, providerVars,
                   template, offline, downloadVars, cacheVars, dest, dest0,
                   trace>>

\* line 257: ensureDir(extractPath)
EnsureDir ==
    /\ pc = "ensureDir"
    /\ IF Exists(dest, extractPath)
       THEN UNCHANGED <<dest, trace>>
       ELSE /\ dest' = Put(dest, extractPath, {})
            /\ trace' = Append(trace, "createDest")
    /\ pc' = "extract"
    /\ UNCHANGED <<sent, headers, other, callVars, resolveVars, providerVars,
                   template, offline, downloadVars, result, cacheVars, dest0>>

\* a variant that returns the input in place of source
Descriptor_WholeInput(t, src, dir) == [template |-> t, source |-> input, dir |-> dir]

\* lines 279-283: { ...template, source, dir: extractPath }
Descriptor(t, src, dir) == [template |-> t, source |-> src, dir |-> dir]

\* lines 259-283: extract the tarball into the destination and return
Extract ==
    /\ pc = "extract"
    /\ dest' = Put(dest, extractPath,
                    dest[extractPath] \cup Extracted(tarballs[tarPath], template))
    /\ trace' = Append(trace, "extract")
    /\ result' = [kind |-> "ok", provider |-> providerName, msg |-> "",
                   value |-> Descriptor(template, source, extractPath)]
    /\ pc' = "done"
    /\ UNCHANGED <<sent, headers, other, callVars, resolveVars, providerVars,
                   template, offline, downloadVars, cacheVars, dest0>>

\* ------------------------------------------------------- the environment
\* the caller starts another call once this one has settled
NextCall ==
    /\ pc = "done"
    /\ calls < MaxCalls
    /\ calls' = calls + 1
    /\ opts' = [opts EXCEPT !.force = FALSE, !.forceClean = FALSE,
                             !.offline = FALSE, !.preferOffline = FALSE]
    /\ pc' = "idle"
    /\ providerName' = <<>>
    /\ source' = <<>>
    /\ provider' = Undefined
    /\ template' = NoTemplate
    /\ offline' = FALSE
    /\ info' = EUndefined
    /\ etag' = EUndefined
    /\ body' = <<>>
    /\ thrown' = ""
    /\ response' = NoFetch
    /\ parsed' = NoParse
    /\ result' = NoResult
    /\ trace' = <<>>
    /\ dest0' = Empty
    /\ headers' = <<>>
    /\ sent' = <<>>
    /\ UNCHANGED <<other, input, cacheVars, dest>>


\* between calls the caller creates the directory it will pass as dir (the
\* test's Deno.mkdir), empty or holding a file of its own
MakeDestination ==
    /\ pc = "idle"
    /\ opts.dir = <<"out">>
    /\ ~Exists(dest, opts.dir)
    /\ \E content \in {{}, {Old}} : dest' = Put(dest, opts.dir, content)
    /\ UNCHANGED <<sent, headers, other, pc, callVars, resolveVars,
                   providerVars, template, offline, downloadVars, result,
                   cacheVars, dest0, trace>>

\* between calls a cached tarball is deleted (the cache is cleared by hand);
\* its sidecar stays
EvictCache ==
    /\ pc = "idle"
    /\ \E p \in DOMAIN tarballs : tarballs' = Remove(tarballs, p)
    /\ UNCHANGED <<sent, headers, other, pc, callVars, resolveVars,
                   providerVars, template, offline, downloadVars, result,
                   sidecars, cacheDirs, dest, dest0, trace>>

Next ==
    \/ Begin
    \/ CallProvider
    \/ OfflinePolicy
    \/ EnsureCacheDir
    \/ ReadInfo
    \/ HeadRequest
    \/ GetRequest
    \/ StreamToFile
    \/ WriteInfo
    \/ DownloadCatch
    \/ TarCheck
    \/ ForceClean
    \/ ConflictCheck
    \/ EnsureDir
    \/ Extract
    \/ NextCall
    \/ MakeDestination
    \/ EvictCache

Spec == Init /\ [][Next]_vars

\* the prefix split and the provider lookup applied to every short input
NextParse == Begin

SpecParse == InitParse /\ [][NextParse]_vars

\* the calls up to the return of the provider, on the provider inputs
NextProvider == Begin \/ CallProvider

SpecProvider == InitProvider /\ [][NextProvider]_vars

\* Extraction of every archive of at most MaxEntries entries under every
\* requested subdir: a call of the github provider that finds the archive in
\* the cache, left there by an earlier run, and goes on to extract it
SubdirTails ==
    {<<>>, <<"/", "foo">>, <<"/", "foo", "/", "bar">>, <<"/", "foo", "/">>,
     <<"/", "bar">>}

ExtractInputs == {<<"gh", ":", "org", "/", "repo">> \o t : t \in SubdirTails}

\* the archives of at most MaxEntries entries the hosts can serve
Archives == SeqsUpTo(HostEntries, MaxEntries)

\* the template the github provider returns for the input, after line 198
ResolvedTemplate(in) ==
    SanitizeTemplate((CHOOSE r \in GitProvider(<<"github">>, SourceOf(in)) : TRUE).t)

CachePathOf(in, o) == TarPath(ProviderNameOf(in, o), ResolvedTemplate(in))

\* a first call with archive a of A cached for input i of I
InitArchive(I, A) ==
    /\ pc = "idle"
    /\ calls = 1
    /\ input \in I
    /\ opts \in Options({"url"}, {FALSE}, {<<>>})
    /\ providerName = <<>>
    /\ source = <<>>
    /\ provider = Undefined
    /\ template = NoTemplate
    /\ offline = FALSE
    /\ info = EUndefined
    /\ etag = EUndefined
    /\ body = <<>>
    /\ thrown = ""
    /\ response = NoFetch
    /\ parsed = NoParse
    /\ result = NoResult
    /\ \E a \in A : tarballs = Put(Empty, CachePathOf(input, opts), a)
    /\ sidecars = Empty
    /\ cacheDirs = {}
    /\ dest = Empty
    /\ dest0 = Empty
    /\ other = NoOther
    /\ headers = <<>>
    /\ sent = <<>>
    /\ trace = <<>>

InitExtract == InitArchive(ExtractInputs, Archives)

NextExtract ==
    \/ Begin
    \/ CallProvider
    \/ OfflinePolicy
    \/ TarCheck
    \/ ForceClean
    \/ ConflictCheck
    \/ EnsureDir
    \/ Extract

SpecExtract == InitExtract /\ [][NextExtract]_vars

\* ------------------------------------------------------ hostile archives
\* every archive of at most MaxEntries entries, the entries no host packs
\* included, and a subdir that is ".."
TraversalInputs ==
    ExtractInputs \cup {<<"gh", ":", "org", "/", "repo", "/", ".", ".">>}

AnyArchives == SeqsUpTo(DOMAIN EntryPaths, MaxEntries)

InitTraversal == InitArchive(TraversalInputs, AnyArchives)

NextTraversal ==
    \/ Begin
    \/ CallProvider
    \/ OfflinePolicy
    \/ TarCheck
    \/ ForceClean
    \/ ConflictCheck
    \/ EnsureDir
    \/ Extract

SpecTraversal == InitTraversal /\ [][NextTraversal]_vars

\* ---------------------------------------------------------- cache paths
\* Calls of the github provider whose ref is made of "/", "." and a name, and
\* calls whose provider token is "." or "..", which no built-in provider has
\* and the registry serves: each up to the end of its download
RefSyms == {"/", ".", "x"}

CacheInputs ==
    {<<"gh", ":", "org", "/", "repo">>}
        \cup {<<"gh", ":", "org", "/", "repo", "#">> \o r :
                  r \in SeqsUpTo(RefSyms, MaxRef) \ {<<>>}}
        \cup {<<".", ":", "x">>, <<".", ".", ":", "x">>}

InitCache ==
    /\ InitCall
    /\ input \in CacheInputs
    /\ opts \in Options({"url"}, {FALSE}, {<<>>})

NextCache ==
    \/ Begin
    \/ CallProvider
    \/ OfflinePolicy
    \/ EnsureCacheDir
    \/ ReadInfo
    \/ HeadRequest
    \/ GetRequest
    \/ StreamToFile
    \/ WriteInfo
    \/ DownloadCatch

SpecCache == InitCache /\ [][NextCache]_vars

\* ------------------------------------------------------ request headers
\* The headers a caller's own provider returns: every object of at most
\* MaxHeaders entries over the authorization key in three letter cases and
\* one other key, each value empty or not.
HeaderKeys == {"authorization", "Authorization", "AUTHORIZATION", "accept"}

HeaderValues == {<<>>, <<"a">>, <<"b">>}

HeaderSets ==
    {h \in SeqsUpTo(HeaderKeys \X HeaderValues, MaxHeaders) :
        \A i, j \in 1..Len(h) : h[i][1] = h[j][1] => i = j}

\* the caller's token (options.auth, or SNAP_REPO_AUTH), <<>> when unset
Tokens == {<<>>, <<"tok">>}

HeaderCallers ==
    {<<<<"custom", ":", "x">>, [o EXCEPT !.auth = a, !.override = h]>> :
        o \in Options({"false"}, {TRUE}, {<<>>}), a \in Tokens,
        h \in HeaderSets}
        \cup {<<i, [o EXCEPT !.auth = a]>> :
                 i \in {<<"gh", ":", "org", "/", "repo">>,
                        <<"gitlab", ":", "org", "/", "repo">>,
                        <<"bitbucket", ":", "org", "/", "repo">>,
                        <<"https", ":", "/", "/", "x", "/", "repo">>},
                 o \in Options({"false"}, {FALSE}, {<<>>}), a \in Tokens}

InitHeaders ==
    InitCall /\ \E c \in HeaderCallers : input = c[1] /\ opts = c[2]

NextHeaders ==
    \/ Begin
    \/ CallProvider
    \/ OfflinePolicy
    \/ EnsureCacheDir
    \/ ReadInfo
    \/ HeadRequest
    \/ GetRequest

SpecHeaders == InitHeaders /\ [][NextHeaders]_vars

\* ------------------------------------------------------ concurrent calls
\* A second downloadTemplate call of the same input with options.dir "out"
\* runs while the first one does: both resolve the same template and use the
\* same tarball and sidecar.  The second call's steps are those of download
\* and of the extraction, the tarball being written chunk by chunk.
OtherDir == <<"out">>

\* byte k of the file set to b, the file growing by one when k is past its end
WriteAt(old, k, b) ==
    [i \in 1..(IF k > Len(old) THEN k ELSE Len(old)) |-> IF i = k THEN b ELSE old[i]]

\* lines 219-221 and download, lines 25-49: cache directory, sidecar, HEAD,
\* skip test and a GET that is answered with a body
OtherDownload ==
    /\ other.pc = "idle"
    /\ cacheDirs' = cacheDirs \cup {Dirname(CachePathOf(input, opts))}
    /\ \E h \in HeadOutcomes(ResolvedTemplate(input).tar) :
          LET p == CachePathOf(input, opts)
              i == IF Exists(sidecars, p) THEN sidecars[p] ELSE EUndefined
          IN  IF AlreadyDownloaded(i, h, Exists(tarballs, p))
              THEN other' = Other("extract", EUndefined, <<>>, 0)
              ELSE \E e \in ETags :
                      other' = Other("open", InfoAfterHead(i, h), Body(e), 0)
    /\ UNCHANGED <<sent, headers, pc, callVars, resolveVars, providerVars,
                   template, offline, downloadVars, result, tarballs, sidecars,
                   dest, dest0, trace>>

\* download, line 57: Deno.open creates the file when it is absent
OtherOpen ==
    /\ other.pc = "open"
    /\ tarballs' = IF Exists(tarballs, CachePathOf(input, opts)) THEN tarballs
                   ELSE Put(tarballs, CachePathOf(input, opts), <<>>)
    /\ other' = [other EXCEPT !.pc = "write"]
    /\ UNCHANGED <<sent, headers, pc, callVars, resolveVars, providerVars,
                   template, offline, downloadVars, result, sidecars,
                   cacheDirs, dest, dest0, trace>>

\* download, line 58: pipeTo writes the next chunk at the handle's offset
OtherWrite ==
    /\ other.pc = "write"
    /\ tarballs' = Put(tarballs, CachePathOf(input, opts),
                       WriteAt(tarballs[CachePathOf(input, opts)], other.written + 1,
                               other.body[other.written + 1]))
    /\ other' = [other EXCEPT !.written = @ + 1,
                              !.pc = IF other.written + 1 = Len(other.body)
                                     THEN "writeInfo" ELSE "write"]
    /\ UNCHANGED <<sent, headers, pc, callVars, resolveVars, providerVars,
                   template, offline, downloadVars, result, sidecars,
                   cacheDirs, dest, dest0, trace>>

\* download, line 61
OtherWriteInfo ==
    /\ other.pc = "writeInfo"
    /\ sidecars' = Put(sidecars, CachePathOf(input, opts), other.info)
    /\ other' = [other EXCEPT !.pc = "extract"]
    /\ UNCHANGED <<sent, headers, pc, callVars, resolveVars, providerVars,
                   template, offline, downloadVars, result, tarballs,
                   cacheDirs, dest, dest0, trace>>

\* lines 237-283 for the second call: its destination does not exist yet
OtherExtract ==
    /\ other.pc = "extract"
    /\ Exists(tarballs, CachePathOf(input, opts))
    /\ dest' = Put(dest, OtherDir,
                   Extracted(tarballs[CachePathOf(input, opts)],
                             ResolvedTemplate(input)))
    /\ other' = [other EXCEPT !.pc = "done"]
    /\ UNCHANGED <<sent, headers, pc, callVars, resolveVars, providerVars,
                   template, offline, downloadVars, result, cacheVars, dest0,
                   trace>>

InitConcurrent ==
    /\ InitCall
    /\ input = <<"gh", ":", "org", "/", "repo">>
    /\ opts \in Options({"url"}, {FALSE}, {<<>>})

NextConcurrent ==
    \/ Begin
    \/ CallProvider
    \/ OfflinePolicy
    \/ EnsureCacheDir
    \/ ReadInfo
    \/ HeadRequest
    \/ GetRequest
    \/ StreamToFile
    \/ WriteInfo
    \/ DownloadCatch
    \/ TarCheck
    \/ ForceClean
    \/ ConflictCheck
    \/ EnsureDir
    \/ Extract
    \/ OtherDownload
    \/ OtherOpen
    \/ OtherWrite
    \/ OtherWriteInfo
    \/ OtherExtract

SpecConcurrent == InitConcurrent /\ [][NextConcurrent]_vars

\* ------------------------------------------------------------ properties
DownloadPcs ==
    {"ensureCacheDir", "readInfo", "head", "get", "write", "writeInfo", "catch"}

ExtractionPcs == {"forceClean", "conflict", "ensureDir", "extract"}

\* the call got past the tarball check (lines 237-241)
ReachedExtraction ==
    pc \in ExtractionPcs
        \/ (pc = "done" /\ result.kind \in {"ok", "DestinationExists", "NotFound"})

\* C1: a call with neither force nor forceClean whose template resolved and
\* whose tarball is in the cache, into a destination that exists, ends with
\* "Destination ... already exists", and the destination holds exactly what
\* it held when the call started.
C1_ConflictLaw ==
    (/\ pc = "done"
     /\ ReachedExtraction
     /\ ~opts.force
     /\ ~opts.forceClean
     /\ Exists(dest0, extractPath))
        => (/\ result = Failure("DestinationExists", providerName, "already exists")
            /\ dest = dest0
            /\ ~Did("removeDest")
            /\ ~Did("extract"))

\* a repeated call fails on a destination that holds files
C1_Witness ==
    /\ pc = "done"
    /\ calls = 2
    /\ result.kind = "DestinationExists"
    /\ ~opts.force
    /\ ~opts.forceClean
    /\ Exists(dest0, extractPath)
    /\ dest0[extractPath] # {}
    /\ dest = dest0

\* C2: with forceClean set and the tarball in the cache the call succeeds
\* whatever the destination was (absent, empty or not); an existing
\* destination is removed before extraction and afterwards the destination
\* holds the extracted content only.
C2_ForceCleanLaw ==
    (/\ pc = "done"
     /\ ReachedExtraction
     /\ opts.forceClean
     /\ \E e \in ETags : tarballs[tarPath] = Body(e))
        => (/\ result.kind = "ok"
            /\ dest[extractPath] = Extracted(tarballs[tarPath], template)
            /\ Exists(dest0, extractPath) => Did("removeDest"))

\* C3: a download call that finds ETag e in the sidecar (only an earlier
\* call that fetched the tarball stores one), gets e again from HEAD and
\* finds the tarball in place returns at once: no GET is issued and the
\* tarball and the sidecar stay as they are.
C3_CacheLaw ==
    [][(/\ pc = "head"
        /\ Exists(tarballs, tarPath)
        /\ Exists(sidecars, tarPath)
        /\ sidecars[tarPath].t = "string"
        /\ etag' = sidecars[tarPath])
           => (/\ pc' = "tarCheck"
               /\ trace' = Append(trace, "HEAD")
               /\ ~Did("GET")
               /\ tarballs' = tarballs
               /\ sidecars' = sidecars)]_vars

\* a later call has skipped the download on an unchanged ETag
C3_Witness ==
    /\ pc = "tarCheck"
    /\ calls = 2
    /\ trace = <<"providerReturned", "ensureCacheDir", "HEAD">>
    /\ Exists(tarballs, tarPath)
    /\ Exists(sidecars, tarPath)
    /\ etag.t = "string"
    /\ sidecars[tarPath] = etag

\* C4: when the download rejects (pc = "catch"), the call goes on to the
\* tarball check in offline mode exactly when a tarball exists at the cache
\* path at that moment; otherwise it ends with the download error, and a call
\* that ended so has not touched the destination.
C4_RecoverableByCache ==
    [][(pc = "catch")
           => IF Exists(tarballs, tarPath)
              THEN pc' = "tarCheck" /\ offline' /\ result' = NoResult
              ELSE /\ pc' = "done"
                   /\ result' = Failure("DownloadError", providerName, thrown)
                   /\ thrown # ""
                   /\ dest' = dest0
                   /\ ~Did("extract")]_vars

\* a call goes on to extraction after its download failed
C4_Witness ==
    /\ pc = "extract"
    /\ offline
    /\ ~opts.offline
    /\ ~opts.preferOffline
    /\ Did("GET")
    /\ ~Did("writeInfo")

\* C5: with offline set, or preferOffline set and the tarball in the cache
\* when line 215 checks, the call goes straight to the tarball check: the
\* downloader is entered from nowhere else, and outside the downloader a
\* running call issues no HEAD or GET and leaves the cache as it is.  With
\* preferOffline set, offline unset and no tarball, the download is
\* attempted.
C5_OfflinePolicy ==
    [][/\ (pc = "offline")
             => IF opts'.offline \/ (opts'.preferOffline /\ Exists(tarballs, tarPath))
                THEN pc' = "tarCheck" /\ offline'
                ELSE pc' = "ensureCacheDir" /\ ~offline'
       /\ (pc' \in DownloadPcs /\ pc \notin DownloadPcs) => pc = "offline"
       /\ (pc \notin DownloadPcs \cup {"idle", "done"})
             => (/\ tarballs' = tarballs
                 /\ sidecars' = sidecars
                 /\ cacheDirs' = cacheDirs
                 /\ Did("HEAD")' = Did("HEAD")
                 /\ Did("GET")' = Did("GET"))]_vars

\* preferOffline alone has kept a call off the network
C5_Witness ==
    /\ pc = "done"
    /\ result.kind = "ok"
    /\ opts.preferOffline
    /\ ~opts.offline
    /\ offline
    /\ ~Did("HEAD")
    /\ ~Did("GET")
    /\ ~Did("ensureCacheDir")

\* C6: the call is in its extraction phase only while a tarball exists at
\* the cache path, and a call that reaches line 237 without one ends with
\* "Tarball not found", which carries the offline flag.
C6_TarballPrecondition ==
    /\ ReachedExtraction => Exists(tarballs, tarPath)
    /\ Did("extract") => Exists(tarballs, tarPath)
    /\ (/\ pc = "done"
        /\ Did("providerReturned")
        /\ result.kind # "DownloadError"
        /\ ~Exists(tarballs, tarPath))
          => result = Failure("TarballNotFound", providerName,
                              IF offline THEN "offline: true" ELSE "offline: false")

\* an offline call finds the cache empty
C6_Witness ==
    /\ pc = "done"
    /\ result.kind = "TarballNotFound"
    /\ opts.offline
    /\ ~Exists(tarballs, tarPath)
    /\ trace = <<"providerReturned">>

\* position of the first ":" of s, 0 when there is none
RECURSIVE FirstColonFrom(_, _)
FirstColonFrom(s, i) ==
    IF i > Len(s) THEN 0 ELSE IF s[i] = ":" THEN i ELSE FirstColonFrom(s, i + 1)

FirstColon(s) == FirstColonFrom(s, 1)

\* the text before and after the first ":" of an input that has one
BeforeColon(s) == SubSeq(s, 1, FirstColon(s) - 1)
AfterColon(s) == Slice(s, FirstColon(s))

\* a non-empty run of characters of [A-Za-z0-9_.-]
IsProviderToken(s) == s # <<>> /\ \A i \in DOMAIN s : s[i] \in ProtoClass

\* the provider name an input without prefix gets
ExpectedDefault(o) ==
    IF o.provider # <<>> THEN o.provider
    ELSE IF o.registry # "false" THEN <<"registry">>
    ELSE <<"github">>

\* C7: for every input that contains ":", providerName is the text
\* before the first ":" and source the text after it, except that for http
\* and https source is the whole input.
C7_SplitAtFirstColon ==
    (pc # "idle" /\ FirstColon(input) > 0)
        => (/\ providerName = BeforeColon(input)
            /\ source = IF BeforeColon(input) \in {<<"http">>, <<"https">>}
                         THEN input ELSE AfterColon(input))

\* C7 amended: the split happens for every input whose text before the first
\* ":" is a non-empty run of [A-Za-z0-9_.-]; any other input that contains
\* ":" is handled as one without provider prefix.
C7_PrefixSplit ==
    (pc # "idle" /\ FirstColon(input) > 0)
        => IF IsProviderToken(BeforeColon(input))
           THEN /\ providerName = BeforeColon(input)
                /\ source = IF BeforeColon(input) \in {<<"http">>, <<"https">>}
                             THEN input ELSE AfterColon(input)
           ELSE /\ providerName = ExpectedDefault(opts)
                /\ source = input

\* an https URL is passed to the provider whole
C7_Witness ==
    /\ pc = "provider"
    /\ input = <<"https", ":", "/">>
    /\ providerName = <<"https">>
    /\ source = input

BuiltinNames ==
    {<<"http">>, <<"https">>, <<"github">>, <<"gh">>, <<"gitlab">>,
     <<"bitbucket">>, <<"sourcehut">>}

\* C9: the provider is the caller's override of that name if there is one,
\* else the built-in of that name, else the registry provider if the
\* registry is enabled; with none of the three the call ends with
\* "Unsupported provider: <providerName>" having done nothing else.
C9_ResolutionOrder ==
    (pc # "idle")
        => IF opts.hasProviders /\ providerName \in CustomKeys
           THEN provider = [kind |-> "override", fn |-> providerName]
           ELSE IF providerName \in BuiltinNames
           THEN provider.kind = "builtin"
           ELSE IF opts.registry # "false"
           THEN provider.kind = "registry"
           ELSE /\ provider = Undefined
                /\ pc = "done"
                /\ result = Failure("UnsupportedProvider", providerName, "")
                /\ trace = <<>>
                /\ dest = dest0

\* C10: a provider that throws ends the call with "Failed to download
\* template from <providerName>: <message>", one that returns null with
\* "Failed to resolve template from <providerName>"; up to and including the
\* provider call nothing is requested from the network and neither the
\* cache nor the destination changes.
C10_ProviderFailure ==
    [][/\ (pc = "idle" /\ pc' # "idle")
             => (trace' = <<>> /\ UNCHANGED <<cacheVars, dest>>)
       /\ (pc = "provider")
             => (/\ UNCHANGED <<cacheVars, dest>>
                 /\ dest = dest0
                 /\ Len(trace') = 1
                 /\ (trace'[1] = "providerThrew")
                       => (/\ pc' = "done"
                           /\ \E o \in ProviderOutcomes(provider, source) :
                                 /\ o.kind = "throw"
                                 /\ result' = Failure("ProviderFailed",
                                                      providerName, o.msg))
                 /\ (trace'[1] = "providerReturnedNull")
                       => (/\ pc' = "done"
                           /\ result' = Failure("ResolveFailed", providerName, "")))
      ]_vars

\* a provider returns null on a later call, with a tarball in the cache
C10_Witness ==
    /\ pc = "done"
    /\ calls = 2
    /\ result.kind = "ResolveFailed"
    /\ trace = <<"providerReturnedNull">>
    /\ DOMAIN tarballs # {}
    /\ dest = dest0

ProviderCalled ==
    \/ pc = "offline"
    \/ pc = "done" /\ result.kind \in {"ProviderFailed", "ResolveFailed"}

\* a document the claim says must be refused
Refused(d) ==
    d.kind = "status" \/ (d.kind = "json" /\ (d.info.name = <<>> \/ d.info.tar = <<>>))

\* C12: the registry provider asks for <endpoint>/<source>.json; on a status
\* >= 400 or a document without name or without tar the call ends with the
\* provider failure, having started no download and left the destination
\* alone; a template it does return has the document's name and tar.
C12_RegistryValidation ==
    (ProviderCalled /\ provider.kind = "registry")
        => (/\ response.url = RegistryEndpoint \o <<"/">> \o source \o <<".", "json">>
            /\ Refused(response.doc)
                  => (/\ pc = "done"
                      /\ result.kind = "ProviderFailed"
                      /\ result.provider = providerName
                      /\ trace = <<"providerThrew">>
                      /\ dest = dest0)
            /\ (pc = "offline")
                  => (/\ response.doc.kind = "json"
                      /\ template.tar = response.doc.info.tar
                      /\ template.tar # <<>>
                      /\ response.doc.info.name # <<>>
                      /\ template.name = Sanitize(response.doc.info.name)))

\* the registry has served a document without tar
C12_Witness ==
    /\ pc = "done"
    /\ provider.kind = "registry"
    /\ response.doc.kind = "json"
    /\ response.doc.info.name = <<"x">>
    /\ response.doc.info.tar = <<>>
    /\ result.kind = "ProviderFailed"
    /\ trace = <<"providerThrew">>

\* C13: when the http provider takes the JSON path (the input ends in
\* ".json", or HEAD reports a JSON content type) and the document lacks tar
\* or name, the resolution fails: no template is returned.
C13_JsonPathFails ==
    (/\ ProviderCalled
     /\ provider = [kind |-> "builtin", fn |-> <<"http">>]
     /\ EndsWithJson(source) \/ response.head = "json"
     /\ response.doc.kind = "json"
     /\ response.doc.info.name = <<>> \/ response.doc.info.tar = <<>>)
        => (pc = "done" /\ result.kind = "ProviderFailed")

\* one of the four git providers has been called
GitCalled == ProviderCalled /\ provider.kind = "builtin" /\ provider.fn # <<"http">>

\* s with every "/" replaced by "-"
Dashed(s) == [i \in 1..Len(s) |-> IF s[i] = "/" THEN "-" ELSE s[i]]

\* the tarball endpoint of each host
TarEndpoint(host, repo, ref) ==
    CASE host = <<"github">> ->
             <<"https://api.github.com/repos/">> \o repo \o <<"/tarball/">> \o ref
      [] host = <<"gitlab">> ->
             <<"https://gitlab.com/">> \o repo \o <<"/-/archive/">> \o ref
                 \o <<".tar.gz">>
      [] host = <<"bitbucket">> ->
             <<"https://bitbucket.org/">> \o repo \o <<"/get/">> \o ref
                 \o <<".tar.gz">>
      [] host = <<"sourcehut">> ->
             <<"https://git.sr.ht/~">> \o repo \o <<"/archive/">> \o ref
                 \o <<".tar.gz">>

\* C14: for a source that parses to {repo, subdir, ref}, each git provider
\* returns name = repo with "/" replaced by "-", version = ref, subdir =
\* subdir and tar = its host's tarball endpoint for repo and ref; "gh:org/repo"
\* goes to the github provider with ref "main" and the tarball endpoint of
\* main.  The call goes on with that template, its name rewritten by line
\* 198.
C14_GitSynthesis ==
    /\ (GitCalled /\ parsed.matched)
          => (/\ \A o \in GitProvider(provider.fn, source) :
                    /\ o.kind = "template"
                    /\ o.t.name = Dashed(parsed.repo)
                    /\ o.t.version = parsed.ref
                    /\ o.t.subdir = parsed.subdir
                    /\ o.t.tar
                         = TarEndpoint(provider.fn, parsed.repo, parsed.ref)
              /\ pc = "offline"
              /\ provider.fn \in {<<"github">>, <<"gitlab">>, <<"bitbucket">>,
                                  <<"sourcehut">>}
              /\ template.name = Sanitize(Dashed(parsed.repo))
              /\ template.version = parsed.ref
              /\ template.subdir = parsed.subdir
              /\ template.tar = TarEndpoint(provider.fn, parsed.repo, parsed.ref))
    /\ (GitCalled /\ input = <<"gh", ":", "org", "/", "repo">>)
          => (/\ provider.fn = <<"github">>
              /\ template.version = <<"main">>
              /\ template.tar = <<"https://api.github.com/repos/", "org", "/", "repo",
                                  "/tarball/", "main">>)

\* the gitlab provider has resolved a source with subdir and ref
C14_Witness ==
    /\ pc = "offline"
    /\ input = <<"gitlab", ":", "org", "/", "repo", "/", "foo", "#", "foo">>
    /\ template.name = <<"org", "-", "repo">>
    /\ template.subdir = <<"/", "foo">>
    /\ template.tar = <<"https://gitlab.com/", "org", "/", "repo", "/-/archive/",
                        "foo", ".tar.gz">>

\* a non-empty run of [A-Za-z0-9_.-]
IsSegment(s) == s # <<>> /\ \A i \in DOMAIN s : s[i] \in RepoClass

\* owner/repo: two segments around one "/"
IsOwnerRepo(s) ==
    LET k == IndexFrom(s, "/", 1)
    IN  k > 0 /\ IsSegment(SubSeq(s, 1, k - 1)) /\ IsSegment(Slice(s, k))

\* C16: for a source of the form owner/repo (two segments of
\* [A-Za-z0-9_.-], no subdir, no "#") parseGitURI returns repo = the whole
\* source, subdir "/" and ref "main".
C16_ParseDefaults ==
    (GitCalled /\ IsOwnerRepo(source))
        => parsed = [matched |-> TRUE, repo |-> source, subdir |-> <<"/">>,
                     ref |-> <<"main">>]

\* a two-segment source with "-" in the owner has been parsed
C16_Witness ==
    /\ pc = "offline"
    /\ source = <<"org", "-", "foo", "/", "foo">>
    /\ parsed.repo = source
    /\ parsed.subdir = <<"/">>
    /\ parsed.ref = <<"main">>

\* the decomposition of s into owner/name, path P and, after the first "#",
\* R
HashPos(s) == IndexFrom(s, "#", 1)
BeforeHash(s) == IF HashPos(s) > 0 THEN SubSeq(s, 1, HashPos(s) - 1) ELSE s
AfterHash(s) == IF HashPos(s) > 0 THEN Slice(s, HashPos(s)) ELSE <<>>

SecondSlash(s) ==
    IF IndexFrom(s, "/", 1) = 0 THEN 0 ELSE IndexFrom(s, "/", IndexFrom(s, "/", 1) + 1)

RepoPart(s) ==
    IF SecondSlash(BeforeHash(s)) > 0
    THEN SubSeq(BeforeHash(s), 1, SecondSlash(BeforeHash(s)) - 1)
    ELSE BeforeHash(s)

PathPart(s) ==
    IF SecondSlash(BeforeHash(s)) > 0
    THEN Slice(BeforeHash(s), SecondSlash(BeforeHash(s)) - 1)
    ELSE <<>>

\* owner/name + P + "#" + R with R non-empty, or owner/name + P
Decomposable(s) == IsOwnerRepo(RepoPart(s)) /\ (HashPos(s) > 0 => AfterHash(s) # <<>>)

\* C17: for a source owner/name + P + "#" + R (P empty or a "/"-led path
\* without "#", R non-empty) parseGitURI returns repo = owner/name, subdir = P
\* ("/" when P is empty) and ref = R, everything after the first "#"; without
\* "#" the ref is "main".
C17_RefIsRest ==
    (GitCalled /\ Decomposable(source))
        => (/\ parsed.matched
            /\ parsed.repo = RepoPart(source)
            /\ parsed.subdir = (IF PathPart(source) # <<>> THEN PathPart(source)
                                ELSE <<"/">>)
            /\ parsed.ref = (IF HashPos(source) > 0 THEN AfterHash(source)
                             ELSE <<"main">>))

\* C17 amended: ref is the longest run of [A-Za-z0-9_./@-] that follows the
\* first "#": all of R when R consists of such characters, R cut before its
\* first other character otherwise, and "main" when R starts with one.
C17_ParseDecomposition ==
    (GitCalled /\ Decomposable(source))
        => (/\ parsed.matched
            /\ parsed.repo = RepoPart(source)
            /\ parsed.subdir = (IF PathPart(source) # <<>> THEN PathPart(source)
                                ELSE <<"/">>)
            /\ parsed.ref =
                   (IF RunLen(AfterHash(source), 1, RefClass) >= 1
                    THEN SubSeq(AfterHash(source), 1,
                                RunLen(AfterHash(source), 1, RefClass))
                    ELSE <<"main">>)
            /\ (\A i \in DOMAIN AfterHash(source) : AfterHash(source)[i] \in RefClass)
                  => parsed.ref = (IF HashPos(source) > 0 THEN AfterHash(source)
                                   ELSE <<"main">>))

\* a source with a ref that contains "/" has been parsed
C17_Witness ==
    /\ pc = "offline"
    /\ source = <<"org", "/", "repo", "#", "foo", "/", "foo">>
    /\ parsed.repo = <<"org", "/", "repo">>
    /\ parsed.subdir = <<"/">>
    /\ parsed.ref = <<"foo", "/", "foo">>

\* what is left of an entry's path once its first segment is removed
Remaining(path) ==
    IF IndexFrom(path, "/", 1) = 0 THEN <<>>
    ELSE SubSeq(path, IndexFrom(path, "/", 1) + 1, Len(path))

\* the requested subdir, leading "/" stripped
RequestedSubdir ==
    IF template.subdir # <<>> /\ Head(template.subdir) = "/" THEN Tail(template.subdir)
    ELSE template.subdir

\* path starts with S followed by "/"
IsUnder(path, S) ==
    /\ Len(path) > Len(S)
    /\ \A i \in 1..Len(S) : path[i] = S[i]
    /\ path[Len(S) + 1] = "/"

\* the files the destination has to hold for the archive: with no subdir
\* every entry at its remaining path, with subdir S the entries below "S/"
\* at what follows "S/" (a path that comes out empty is the destination
\* directory itself and is no file)
ExpectedFiles(archive, S) ==
    {<<q[1], archive[q[2]]>> :
        q \in {r \in {<<(IF S = <<>> THEN Remaining(EntryPaths[archive[i]])
                          ELSE IF IsUnder(Remaining(EntryPaths[archive[i]]), S)
                          THEN SubSeq(Remaining(EntryPaths[archive[i]]),
                                      Len(S) + 2,
                                      Len(Remaining(EntryPaths[archive[i]])))
                          ELSE <<>>), i>> : i \in DOMAIN archive} :
                    r[1] # <<>>}}

C19_CacheEntry ==
    /\ pc \notin DownloadPcs
          => \A p \in DOMAIN sidecars :
                (sidecars[p].t = "string" /\ Exists(tarballs, p))
                    => tarballs[p] = Body(sidecars[p].v)
    /\ pc = "writeInfo"
          => (/\ Exists(tarballs, tarPath)
              /\ SubSeq(tarballs[tarPath], 1, Len(body)) = body)

\* C20: the HEAD step of download leaves without a GET only when HEAD
\* answered with an ETag, that ETag is the one the sidecar stores and the
\* target file exists; in every other case the download goes on to its GET,
\* and a call issues the GET once.
C20_SkipRule ==
    [][/\ pc = "head"
          => IF /\ etag'.t = "string"
                /\ Exists(sidecars, tarPath)
                /\ sidecars[tarPath] = etag'
                /\ Exists(tarballs, tarPath)
             THEN pc' = "tarCheck" /\ trace' = Append(trace, "HEAD")
             ELSE pc' = "get"
       /\ pc = "get"
          => (~Did("GET") /\ trace' = Append(trace, "GET") /\ pc' # "get")]_vars

\* C18: a call that runs next to a second call with another destination,
\* the two sharing the tarball and the sidecar, ends as it would alone.
\* Alone, and with the cache empty when it starts, a call that ends with
\* success has written the tarball itself, and when its download completed
\* its destination holds the extraction of one complete body; the same goes
\* for the second call.
C18_Independence ==
    /\ (pc = "done" /\ result.kind = "ok") => Did("writeTarball")
    /\ (pc = "done" /\ result.kind = "ok" /\ Did("writeInfo"))
          => \E e \in ETags : dest[extractPath] = Extracted(Body(e), template)
    /\ (other.pc = "done" /\ other.written = Len(other.body) /\ other.body # <<>>)
          => \E e \in ETags :
                dest[OtherDir] = Extracted(Body(e), ResolvedTemplate(input))

\* the error download throws for a GET response with status >= 400
StatusError == "Failed to download: status >= 400"

\* C21: a download whose GET is answered with a status >= 400 rejects with
\* the status error; from its start up to and including the handling of that
\* error the tarball and the sidecar stay as they were, so the ETag the HEAD
\* response carried is not persisted.
C21_HttpError ==
    [][/\ pc \in {"readInfo", "head", "get"}
          => (tarballs' = tarballs /\ sidecars' = sidecars)
       /\ (thrown' = StatusError /\ thrown # StatusError)
          => (pc = "get" /\ pc' = "catch" /\ trace' = Append(trace, "GET"))
       /\ (pc = "catch" /\ thrown = StatusError)
          => (/\ tarballs' = tarballs
              /\ sidecars' = sidecars
              /\ pc' = "done"
                    => (result'.kind = "DownloadError" /\ result'.msg = StatusError))]_vars

\* HEAD answered with a new ETag, GET with a status >= 400: the sidecar
\* still stores the old ETag
C21_Witness ==
    /\ pc = "catch"
    /\ thrown = StatusError
    /\ info.t = "string"
    /\ Exists(sidecars, tarPath)
    /\ sidecars[tarPath].t = "string"
    /\ sidecars[tarPath] # info
    /\ Exists(tarballs, tarPath)

\* the characters [A-Za-z0-9-]
SafeSyms == AlnumSyms \cup {"-"}

IsSafe(s) == \A i \in DOMAIN s : s[i] \in SafeSyms

\* the call holds a template that went through step 3
HoldsTemplate ==
    pc \in {"offline", "tarCheck"} \cup DownloadPcs \cup ExtractionPcs
        \/ (pc = "done" /\ result.kind \notin {"UnsupportedProvider", "ProviderFailed",
                                                "ResolveFailed", "none"})

\* C22: once the provider has returned a template, template.name and
\* template.defaultDir are non-empty and made of [A-Za-z0-9-] only; right
\* after step 3 the name is what the provider gave with every other
\* character replaced by "-", or "template" when it gave none, and defaultDir
\* is what it gave, rewritten the same way, or the sanitized name when it
\* gave none; sanitizing the two again changes nothing.
C22_Sanitization ==
    /\ HoldsTemplate
          => (/\ template.name # <<>> /\ IsSafe(template.name)
              /\ template.defaultDir # <<>> /\ IsSafe(template.defaultDir)
              /\ Sanitize(template.name) = template.name
              /\ Sanitize(template.defaultDir) = template.defaultDir
              /\ SanitizeTemplate(template) = template)
    /\ pc = "offline"
          => \E o \in ProviderOutcomesOn(provider, source, response) :
                /\ o.kind = "template"
                /\ template.name =
                       (IF o.t.name = <<>> THEN <<"template">>
                        ELSE [i \in 1..Len(o.t.name) |->
                                 IF o.t.name[i] \in SafeSyms THEN o.t.name[i]
                                 ELSE "-"])
                /\ template.defaultDir =
                       (IF o.t.defaultDir = <<>> THEN template.name
                        ELSE [i \in 1..Len(o.t.defaultDir) |->
                                 IF o.t.defaultDir[i] \in SafeSyms
                                 THEN o.t.defaultDir[i] ELSE "-"])

\* the http provider returned a name with ":" and "/" in it and no version:
\* the name has been rewritten, the default directory was given
C22_Witness ==
    /\ pc = "offline"
    /\ input = <<"https", ":", "/", "/", "x", "/", "repo">>
    /\ template.name = <<"repo", "-", "https", "-", "-", "-">>
    /\ template.defaultDir = <<"repo">>

\* template.version || template.name
VersionOrName(t) == IF t.version # <<>> THEN t.version ELSE t.name

\* path lies below directory d
IsBelow(path, d) == Len(path) > Len(d) /\ SubSeq(path, 1, Len(d)) = d

\* the cache keys of the github calls of SpecCache: provider token and template
GitCacheKeys ==
    {<<ProviderNameOf(i, opts), ResolvedTemplate(i)>> :
        i \in {j \in CacheInputs : Head(j) = "gh"}}

\* C23: the tarball path of a call is the file
\* {cacheRoot}/{providerName}/{sanitized name}/{version or name}.tar.gz, and
\* another call has the same path exactly when it has the same provider
\* token, sanitized name and version-or-name.
C23_CacheKey ==
    (pc = "offline")
        => (/\ tarPath = Normalize(SplitSlash(providerName \o <<"/">>
                                                  \o template.name \o <<"/">>
                                                  \o VersionOrName(template)
                                                  \o <<".tar.gz">>),
                                       CacheRoot)
            /\ \A k \in GitCacheKeys :
                  (TarPath(k[1], k[2]) = tarPath)
                      <=> (/\ k[1] = providerName
                           /\ k[2].name = template.name
                           /\ VersionOrName(k[2]) = VersionOrName(template)))

\* C27: the tarball path of every call lies inside
\* {cacheRoot}/{providerName}/{sanitized name}/, and every directory the
\* downloader creates and every tarball and sidecar it writes lies inside
\* the cache root.
C27_CacheContainment ==
    /\ pc \in {"offline"} \cup DownloadPcs
          => IsBelow(tarPath, Normalize(<<providerName, template.name>>, CacheRoot))
    /\ \A d \in cacheDirs : IsBelow(d, CacheRoot)
    /\ \A p \in DOMAIN tarballs \cup DOMAIN sidecars : IsBelow(p, CacheRoot)

\* the letter cases of the authorization key
AuthorizationKeys == {"authorization", "Authorization", "AUTHORIZATION"}

\* the non-empty authorization values the provider's headers set
ProvidedAuthorization ==
    {headers[i][2] : i \in {j \in 1..Len(headers) :
                               /\ headers[j][1] \in AuthorizationKeys
                               /\ headers[j][2] # <<>>}}

\* the authorization entries of the latest tarball request
SentAuthorization ==
    {i \in 1..Len(sent) : sent[i][1] \in AuthorizationKeys}

\* a tarball HEAD or GET request has been sent
Requested == \E i \in 1..Len(trace) : trace[i] \in {"HEAD", "GET"}

\* C24: once a tarball HEAD or GET request has been sent, its headers hold
\* no empty value; when the provider's headers set a non-empty authorization
\* under any letter case the request carries exactly one authorization
\* header and its value is one the provider set; otherwise, when the caller
\* set auth, the request carries exactly one authorization header and its
\* value is "Bearer <auth>".
C24_HeaderMerge ==
    Requested =>
        /\ \A i \in 1..Len(sent) : sent[i][2] # <<>>
        /\ ProvidedAuthorization # {} =>
               /\ Cardinality(SentAuthorization) = 1
               /\ \A i \in SentAuthorization : sent[i][2] \in ProvidedAuthorization
        /\ ProvidedAuthorization = {} /\ opts.auth # <<>> =>
               /\ Cardinality(SentAuthorization) = 1
               /\ \A i \in SentAuthorization :
                      sent[i][2] = <<"Bearer", " ">> \o opts.auth

\* a GET went out for a caller with auth set whose provider's headers hold
\* an upper-case Authorization and an empty entry: the provider's value was
\* sent, not the bearer token
C24_Witness ==
    /\ pc \in {"write", "catch"}
    /\ opts.auth # <<>>
    /\ \E i \in 1..Len(headers) : headers[i] = <<"AUTHORIZATION", <<"a">> >>
    /\ \E i \in 1..Len(headers) : headers[i][2] = <<>>
    /\ sent = << <<"authorization", <<"a">> >> >>

\* the errors of a call that ends before the extraction steps
EarlyFailures ==
    {"UnsupportedProvider", "ProviderFailed", "ResolveFailed", "DownloadError",
     "TarballNotFound"}

\* the provider of this call returned a template
ProviderSucceeded ==
    /\ trace # <<>>
    /\ \E i \in 1..Len(trace) :
          /\ trace[i] = "providerReturned"
          /\ \A j \in 1..Len(trace) :
                trace[j] \in {"providerThrew", "providerReturnedNull"} => j < i

C28_TarballOverwrite ==
    pc = "writeInfo" => (Exists(tarballs, tarPath) /\ tarballs[tarPath] = body)

\* the path an entry has once onentry has rewritten it
Rewritten(b) == onentry(EntryPaths[b], RequestedSubdir)

\* path has a ".." segment
HasParentSegment(path) ==
    \E i \in DOMAIN SplitSlash(path) : SplitSlash(path)[i] = <<".", ".">>

IsAbsolute(path) == path # <<>> /\ Head(path) = "/"

\* where a file written at path below the destination ends up
Lands(path) == Normalize(SplitSlash(path), << <<"dest">> >>)

\* the blocks of the archive that were written into the destination
WrittenBlocks == {f[2] : f \in dest[extractPath]}

Unpacked == pc = "done" /\ result.kind = "ok" /\ ~Exists(dest0, extractPath)

====
